---- MODULE Spec2Model ----
(***************************************************************************)
(* A model of ST_filter (Kobayashi et al. 2019 significant-tie filter):    *)
(* the three entry points ST_filter, ST_filter_aat and ST_filter_list of   *)
(* src/ST_filter/ST_filter/ST_filter.py.                                   *)
(*                                                                         *)
(* Numbers.  Activity parameters are rationals a/Q (a an integer), so a    *)
(* tie probability u = x_i*x_j is c/(Q*Q) with c = a_i*a_j.  A p-value is  *)
(* a record [nan, num, den]; alpha is alpha/AlphaDen.  The residuals H of  *)
(* the objective function are extended rationals [n, d]: d > 0 is n/d in   *)
(* lowest terms, d = 0 is the IEEE special +inf (n = 1), -inf (n = -1) or  *)
(* nan (n = 0) that numpy's float division produces.  Rounding error of    *)
(* finite floating point results is not modelled.                          *)
(*                                                                         *)
(* scipy.optimize.root is an external solver: its result (sol.x and        *)
(* sol.success) is modelled as an arbitrary vector of the grid and an      *)
(* arbitrary flag, since the code accepts whatever the solver returns.     *)
(***************************************************************************)
EXTENDS Integers, Sequences, FiniteSets, TLC

(* ------------------------------ bounds -------------------------------- *)
\* activity parameters range over 0/Q .. XMax/Q
Q == 2
\* largest numerator of an activity parameter (XMax > Q: a parameter above 1)
XMax == 3
\* alpha ranges over AlphaNums/AlphaDen
AlphaDen == 16
\* snapshot counts of the significance-tester inputs
MaxTau == 2
\* node count of the significance-tester inputs
TesterN == 2

AlphaNums == {1, 4, 9, 15}
Judges == {"p_val", "inv_binom", "other"}
Entries == {"ST_filter", "ST_filter_aat", "ST_filter_list"}

(* ------------------------------ state --------------------------------- *)
VARIABLES
    entry,        \* which entry point was called
    edge_list,    \* ST_filter_list: the edge list (rows <<snapshot, node1, node2>>)
    A_snap,       \* ST_filter: the snapshot stack
    AAT,          \* ST_filter_aat: the aggregate matrix
    t,            \* ST_filter_aat: the snapshot count
    alpha,        \* numerator of alpha over AlphaDen
    judge,
    memorysave,
    paral,
    pc,           \* position of the call
    tau,
    N,
    nodes,        \* ST_filter_list: list(set(...)) of the labels
    in_str,
    edge_ids,     \* ST_filter_list: edge_list after np.array(edge_list, int)
    Adj_all,
    activ_params, \* sol.x, numerators over Q
    success,      \* sol.success
    p_mat,
    Adj_sig,
    resultset,    \* the returned dict (field -> value)
    outcome,      \* what the caller sees: "running", "result", "none" or "raised"
    exc,          \* the exception that occurred in the call ("" when none did)
    x,            \* the argument of one evaluation of obj_func, numerators over Q
    search_list,  \* memory-saving mode: the per-row sorted pair list
    H_dense,      \* obj_func(x) of the dense path
    H,            \* obj_func(x) of the memory-saving path
    pcm,          \* position of the thread that evaluates obj_func
    work_queue,   \* ThreadPoolExecutor: submitted tasks no worker has taken yet
    running,      \* ThreadPoolExecutor: the tasks the worker threads are running
    fut,          \* the futures of executor.map, by task index
    completed,    \* the tasks in the order they completed
    results,      \* list(result): the results collected so far
    runs          \* how many times each task was started

inputs == <<entry, edge_list, A_snap, AAT, t, alpha, judge, memorysave, paral>>
normVars == <<tau, N, nodes, in_str, edge_ids, Adj_all>>
solveVars == <<activ_params, success>>
testVars == <<p_mat, Adj_sig>>
retVars == <<resultset, outcome, exc>>
objVars == <<x, search_list, H_dense, H>>
parVars == <<pcm, work_queue, running, fut, completed, results, runs>>

vars == <<inputs, pc, normVars, solveVars, testVars, retVars, objVars, parVars>>

\* the variables an evaluation of obj_func uses, before it is called
ObjIdle ==
    /\ search_list = << >> /\ H_dense = << >> /\ H = << >>
    /\ pcm = "idle" /\ work_queue = << >> /\ running = {} /\ fut = << >>
    /\ completed = << >> /\ results = << >> /\ runs = << >>

(* ---------------------------- arithmetic ------------------------------ *)
Idx(n) == 0..(n - 1)

RECURSIVE Pow(_, _)
Pow(b, e) == IF e <= 0 THEN 1 ELSE b * Pow(b, e - 1)

RECURSIVE Binomial(_, _)
Binomial(n, k) ==
    IF k < 0 \/ k > n THEN 0
    ELSE IF k = 0 THEN 1
    ELSE (Binomial(n - 1, k - 1) * n) \div k

\* the denominator of a tie probability
UDen == Q * Q

\* sum_{j = lo..n} C(n,j) c^j (UDen - c)^(n-j): numerator, over UDen^n, of
\* P(X >= lo) for X ~ Binomial(n, c/UDen)
RECURSIVE BinomTail(_, _, _)
BinomTail(lo, n, c) ==
    IF lo > n THEN 0
    ELSE IF lo < 0 THEN BinomTail(0, n, c)
    ELSE Binomial(n, lo) * Pow(c, lo) * Pow(UDen - c, n - lo) + BinomTail(lo + 1, n, c)

NaN == [nan |-> TRUE, num |-> 0, den |-> 1]
Prob(num, den) == [nan |-> FALSE, num |-> num, den |-> den]

\* p <= alpha and p < alpha on floats: False when p is nan
LeAlpha(p, a) == ~p.nan /\ p.num * AlphaDen <= a * p.den
LtAlpha(p, a) == ~p.nan /\ p.num * AlphaDen < a * p.den

(* ----------------- Probability & significance tester ------------------ *)
\* stat.binom.sf(k, n, p): P(X > k) for X ~ Binomial(n, p); nan when p is not in [0, 1]
binom_sf(k, n, c) ==
    IF c < 0 \/ c > UDen THEN NaN ELSE Prob(BinomTail(k + 1, n, c), Pow(UDen, n))

\* stat.binom.isf(q, n, p): the smallest k with sf(k) <= q; a - 1 = -1 at q = 1,
\* b = n at q = 0; nan (here: no value) when p or q is out of range
RECURSIVE isf_search(_, _, _, _)
isf_search(k, a, n, c) ==
    IF k >= n \/ LeAlpha(binom_sf(k, n, c), a) THEN k ELSE isf_search(k + 1, a, n, c)

binom_isf(a, n, c) ==
    IF c < 0 \/ c > UDen \/ a < 0 \/ a > AlphaDen THEN [nan |-> TRUE, k |-> 0]
    ELSE IF a = AlphaDen THEN [nan |-> FALSE, k |-> -1]
    ELSE IF a = 0 THEN [nan |-> FALSE, k |-> n]
    ELSE [nan |-> FALSE, k |-> isf_search(0, a, n, c)]

\* Adj_all > stat.binom.isf(...): False against nan
AboveIsf(m, a, n, c) == LET q == binom_isf(a, n, c) IN ~q.nan /\ m > q.k

\* u = activ_params.reshape(-1,1) @ activ_params.reshape(1,-1), numerators over UDen
UMat(ap, n) == [i \in Idx(n) |-> [j \in Idx(n) |-> ap[i] * ap[j]]]

\* p_mat = stat.binom.sf(k = Adj_all, n = tau, p = u) + diag(nan)
PMat(adj, n, tt, ap) ==
    [i \in Idx(n) |-> [j \in Idx(n) |->
        IF i = j THEN NaN ELSE binom_sf(adj[i][j], tt, UMat(ap, n)[i][j])]]

Bit(b) == IF b THEN 1 ELSE 0

\* the judge of ST_filter
SigST(j, adj, p, a, n, tt, ap) ==
    [i \in Idx(n) |-> [k \in Idx(n) |->
        IF j = "p_val" THEN Bit(adj[i][k] > 0) * Bit(LeAlpha(p[i][k], a))
        ELSE IF j = "inv_binom" THEN Bit(AboveIsf(adj[i][k], a, tt, UMat(ap, n)[i][k]))
        ELSE Bit(LeAlpha(p[i][k], a))]]

\* the judge of ST_filter_aat
SigAAT(j, adj, p, a, n, tt, ap) ==
    [i \in Idx(n) |-> [k \in Idx(n) |->
        IF j = "p_val" THEN Bit(adj[i][k] > 0) * Bit(LtAlpha(p[i][k], a))
        ELSE IF j = "inv_binom" THEN Bit(AboveIsf(adj[i][k], a, tt, UMat(ap, n)[i][k]))
        ELSE Bit(LtAlpha(p[i][k], a))]]

\* the judge of ST_filter_list (dense path)
SigList(j, adj, p, a, n, tt, ap) ==
    [i \in Idx(n) |-> [k \in Idx(n) |->
        IF j = "p_val" THEN Bit(adj[i][k] > 0) * Bit(LeAlpha(p[i][k], a))
        ELSE IF j = "inv_binom" THEN Bit(AboveIsf(adj[i][k], a, tt, UMat(ap, n)[i][k]))
        ELSE Bit(LtAlpha(p[i][k], a))]]

SigOf(e, j, adj, p, a, n, tt, ap) ==
    IF e = "ST_filter" THEN SigST(j, adj, p, a, n, tt, ap)
    ELSE IF e = "ST_filter_aat" THEN SigAAT(j, adj, p, a, n, tt, ap)
    ELSE SigList(j, adj, p, a, n, tt, ap)

\* symmetric n x n count matrices with zero diagonal and entries in 0..maxv
SymMatrices(n, maxv) ==
    {m \in [Idx(n) -> [Idx(n) -> 0..maxv]] :
        \A i, j \in Idx(n) : m[i][j] = m[j][i] /\ m[i][i] = 0}

\* the vectors the solver may return for n nodes
Iterates(n) == [Idx(n) -> 0..XMax]

(* the two steps of the tester, for the three entry points *)
PValues ==
    /\ pc = "solved" /\ outcome = "running"
    /\ p_mat' = PMat(Adj_all, N, tau, activ_params)
    /\ pc' = "pvalues"
    /\ UNCHANGED <<inputs, normVars, solveVars, Adj_sig, retVars, objVars, parVars>>

Judge ==
    /\ pc = "pvalues" /\ outcome = "running"
    /\ Adj_sig' = SigOf(entry, judge, Adj_all, p_mat, alpha, N, tau, activ_params)
    /\ pc' = "judged"
    /\ UNCHANGED <<inputs, normVars, solveVars, p_mat, retVars, objVars, parVars>>

\* the tester's inputs: any aggregate matrix, snapshot count and solver result
InitTester ==
    /\ entry \in Entries
    /\ judge \in Judges
    /\ alpha \in AlphaNums
    /\ tau \in 1..MaxTau
    /\ N = TesterN
    /\ Adj_all \in SymMatrices(TesterN, MaxTau)
    /\ \A i, j \in Idx(TesterN) : Adj_all[i][j] <= tau
    /\ activ_params \in Iterates(TesterN)
    /\ success \in BOOLEAN
    /\ pc = "solved"
    /\ edge_list = << >> /\ A_snap = << >> /\ AAT = << >> /\ t = 0
    /\ memorysave = FALSE /\ paral = FALSE
    /\ nodes = << >> /\ in_str = FALSE /\ edge_ids = << >>
    /\ p_mat = << >> /\ Adj_sig = << >> /\ resultset = << >>
    /\ outcome = "running" /\ exc = ""
    /\ x = << >> /\ ObjIdle

NextTester == PValues \/ Judge

SpecTester == InitTester /\ [][NextTester]_vars

(* --------------------------- claims C1 - C4 --------------------------- *)
\* the p-value the specification describes: P(X >= k)
AtLeastP(k, n, c) == Prob(BinomTail(k, n, c), Pow(UDen, n))

\* C1: for every entry point, judge and alpha, Adj_sig[i][j] = 1 implies
\* Adj_all[i][j] > 0, for all i, j (diagonal included).
C1_SigImpliesTie ==
    pc = "judged" =>
        \A i, j \in Idx(N) : Adj_sig[i][j] = 1 => Adj_all[i][j] > 0

\* C2: with judge neither 'p_val' nor 'inv_binom' the entry point returns the
\* Adj_sig it returns for judge = 'p_val' on the same input.
C2_FallbackIsPVal ==
    (pc = "judged" /\ judge = "other") =>
        Adj_sig = SigOf(entry, "p_val", Adj_all, p_mat, alpha, N, tau, activ_params)

\* C3: under judge = 'p_val', in each of the three entry points,
\* Adj_sig[i][j] = 1 iff p_mat[i][j] <= alpha and Adj_all[i][j] > 0.
C3_PValIffLeAlpha ==
    (pc = "judged" /\ judge = "p_val") =>
        \A i, j \in Idx(N) :
            Adj_sig[i][j] = 1 <=> (LeAlpha(p_mat[i][j], alpha) /\ Adj_all[i][j] > 0)

\* C4: off the diagonal p_mat[i][j] = P(X >= Adj_all[i][j]) for
\* X ~ Binomial(tau, u[i][j]); the diagonal is NaN.
C4_PValueIsAtLeast ==
    (pc \in {"pvalues", "judged"} /\ \A i \in Idx(N) : activ_params[i] <= Q) =>
        \A i, j \in Idx(N) :
            p_mat[i][j] = IF i = j THEN NaN
                          ELSE AtLeastP(Adj_all[i][j], tau, activ_params[i] * activ_params[j])

(* -------------------- Input normaliser: edge list --------------------- *)
\* rows of an edge list and node labels are strings, as in a numpy array of str;
\* an integer cell is the string of its digits
Digits == <<"0", "1", "2", "3", "4", "5", "6", "7", "8", "9">>
Tok(i) == Digits[i + 1]
IsInt(s) == \E k \in DOMAIN Digits : Digits[k] = s
IntOf(s) == (CHOOSE k \in DOMAIN Digits : Digits[k] = s) - 1

\* set(edge_list.T[c])
Column(el, c) == {el[k][c] : k \in DOMAIN el}

\* the labels of both endpoint columns
Labels(el) == Column(el, 2) \cup Column(el, 3)

\* list(set(...)): the elements of S in some order, indexed from 0
Orderings(S) ==
    {f \in [Idx(Cardinality(S)) -> S] : \A i, j \in DOMAIN f : f[i] = f[j] => i = j}

\* np.array(edge_list, int) raises ValueError
NotAllInt(el) == \E k \in DOMAIN el : \E c \in 1..3 : ~IsInt(el[k][c])

\* np.where(edge_list == label, i, edge_list) on an array of str
WhereEq(el, label, i) ==
    [k \in DOMAIN el |-> [c \in 1..3 |-> IF el[k][c] = label THEN Tok(i) ELSE el[k][c]]]

\* for i in range(N): edge_list = np.where(edge_list == nodes[i], i, edge_list)
RECURSIVE Rewrite(_, _, _, _)
Rewrite(el, nd, i, n) ==
    IF i >= n THEN el ELSE Rewrite(WhereEq(el, nd[i], i), nd, i + 1, n)

ToInts(el) == [k \in DOMAIN el |-> [c \in 1..3 |-> IntOf(el[k][c])]]

\* tau = len(set(edge_list.T[0]))
ListTau(el) == Cardinality(Column(el, 1))

\* ST_filter_list up to the end of the try/except of the int conversion
LNormalise ==
    /\ pc = "start" /\ outcome = "running" /\ entry = "ST_filter_list"
    /\ IF edge_list = << >>
       THEN \* edge_list.T[0] of an empty array
            /\ exc' = "IndexError" /\ outcome' = "raised"
            /\ UNCHANGED <<pc, tau, N, nodes, in_str, edge_ids>>
       ELSE
        /\ tau' = ListTau(edge_list)
        /\ \E nd \in Orderings(Labels(edge_list)) :
            LET n == Cardinality(Labels(edge_list))
                rewritten == Rewrite(edge_list, nd, 0, n)
            IN  /\ nodes' = nd
                /\ N' = n
                /\ in_str' = NotAllInt(edge_list)
                /\ IF ~NotAllInt(edge_list)
                   THEN /\ edge_ids' = ToInts(edge_list) /\ pc' = "normalised"
                        /\ UNCHANGED <<outcome, exc>>
                   ELSE IF NotAllInt(rewritten)
                   THEN \* the second np.array(edge_list, int) raises in the handler
                        /\ exc' = "ValueError" /\ outcome' = "raised"
                        /\ UNCHANGED <<pc, edge_ids>>
                   ELSE /\ edge_ids' = ToInts(rewritten) /\ pc' = "normalised"
                        /\ UNCHANGED <<outcome, exc>>
    /\ UNCHANGED <<inputs, Adj_all, solveVars, testVars, resultset, objVars, parVars>>

\* number of rows of the integer edge list with endpoints (a, b), in this orientation
Rows(ids, a, b) == Cardinality({k \in DOMAIN ids : ids[k][2] = a /\ ids[k][3] = b})

\* csr_matrix((data, e_list.T), shape = (N, N)) raises ValueError
OutOfShape(ids, n) ==
    \E k \in DOMAIN ids : \E c \in 2..3 : ids[k][c] < 0 \/ ids[k][c] >= n

\* the mutant of DenseAdj: the transpose is not added
DenseAdjOneWay(ids, n) == [i \in Idx(n) |-> [j \in Idx(n) |-> Rows(ids, i, j)]]

\* Adj_all = (u_agg_mat + u_agg_mat.T).toarray()
DenseAdj(ids, n) ==
    [i \in Idx(n) |-> [j \in Idx(n) |-> Rows(ids, i, j) + Rows(ids, j, i)]]

\* the positions of ST_filter_list inside the try block of the dense path
TryStages == {"normalised", "dense", "solved", "pvalues", "judged"}

\* the mutant of Caught: a handler that catches every exception
CaughtAny(e, ent, ms, at) == ent = "ST_filter_list" /\ ~ms /\ at \in TryStages

\* whether exception e, raised at position at, is caught (the call then returns
\* None): only ST_filter_list has a handler, only around the dense path and only
\* for MemoryError
Caught(e, ent, ms, at) ==
    e = "MemoryError" /\ ent = "ST_filter_list" /\ ~ms /\ at \in TryStages

\* ST_filter_list: the dense aggregate matrix
LDense ==
    /\ pc = "normalised" /\ outcome = "running"
    /\ entry = "ST_filter_list" /\ ~memorysave
    /\ IF OutOfShape(edge_ids, N)
       THEN /\ exc' = "ValueError"
            /\ outcome' = IF Caught("ValueError", entry, memorysave, pc)
                          THEN "none" ELSE "raised"
            /\ UNCHANGED <<pc, Adj_all>>
       ELSE Adj_all' = DenseAdj(edge_ids, N) /\ pc' = "dense" /\ UNCHANGED <<outcome, exc>>
    /\ UNCHANGED <<inputs, tau, N, nodes, in_str, edge_ids, solveVars, testVars,
                   resultset, objVars, parVars>>

(* ------------------- edge lists with string labels -------------------- *)
\* rows of the labelled edge lists
LabelRows == 2
SnapTokens == {"1", "2", "t"}
NodeTokens == {"0", "1", "a", "b"}

\* the non-empty edge lists of at most n rows over the given tokens
EdgeLists(snaps, toks, n) ==
    UNION {[1..len -> [1..3 -> snaps \cup toks]] : len \in 1..n}

WellFormed(el, snaps, toks) ==
    \A k \in DOMAIN el : el[k][1] \in snaps /\ el[k][2] \in toks /\ el[k][3] \in toks

InitRun ==
    /\ pc = "start" /\ outcome = "running" /\ exc = ""
    /\ tau = 0 /\ N = 0 /\ nodes = << >> /\ in_str = FALSE /\ edge_ids = << >>
    /\ Adj_all = << >> /\ activ_params = << >> /\ success = FALSE
    /\ p_mat = << >> /\ Adj_sig = << >> /\ resultset = << >>
    /\ x = << >> /\ ObjIdle

InitLabels ==
    /\ entry = "ST_filter_list"
    /\ edge_list \in {el \in EdgeLists(SnapTokens, NodeTokens, LabelRows) :
                         WellFormed(el, SnapTokens, NodeTokens)}
    /\ A_snap = << >> /\ AAT = << >> /\ t = 0
    /\ alpha = 1 /\ judge = "p_val" /\ memorysave = FALSE /\ paral = TRUE
    /\ InitRun

NextLabels == LNormalise \/ LDense

SpecLabels == InitLabels /\ [][NextLabels]_vars

\* the index of a label in nodes
IndexOf(label) == CHOOSE i \in DOMAIN nodes : nodes[i] = label

\* C5: for an edge list with a non-numeric node label, every distinct label is
\* mapped to exactly one index i with nodes[i] = label, distinct labels to
\* distinct indices, and every row (s, a, b) contributes to Adj_all at exactly
\* the cells (index(a), index(b)) and (index(b), index(a)).
C5_LabelsKeepTheirIndex ==
    (pc \in {"normalised", "dense"} /\ \E l \in Labels(edge_list) : ~IsInt(l)) =>
        /\ \A l \in Labels(edge_list) : \E i \in DOMAIN nodes : nodes[i] = l
        /\ \A i, j \in DOMAIN nodes : nodes[i] = nodes[j] => i = j
        /\ DOMAIN nodes = Idx(N)
        /\ \A k \in DOMAIN edge_list :
              /\ edge_ids[k][2] = IndexOf(edge_list[k][2])
              /\ edge_ids[k][3] = IndexOf(edge_list[k][3])
        /\ pc = "dense" =>
              \A i, j \in Idx(N) :
                  Adj_all[i][j] =
                      Cardinality({k \in DOMAIN edge_list :
                          \/ (nodes[i] = edge_list[k][2] /\ nodes[j] = edge_list[k][3])
                          \/ (nodes[j] = edge_list[k][2] /\ nodes[i] = edge_list[k][3])})
                      * (IF i = j THEN 2 ELSE 1)

(* ------------- Input normaliser: snapshot stack, aggregate ------------- *)
\* np.sum(A_snap, axis = 0)
RECURSIVE StackSum(_, _, _)
StackSum(stack, k, n) ==
    IF k = 0 THEN [i \in Idx(n) |-> [j \in Idx(n) |-> 0]]
    ELSE [i \in Idx(n) |-> [j \in Idx(n) |->
             StackSum(stack, k - 1, n)[i][j] + stack[k][i][j]]]

\* len(A_snap[0]), len(AAT)
MatLen(m) == Cardinality(DOMAIN m)

\* ST_filter: tau, N and Adj_all
STCanon(stack) ==
    <<MatLen(stack[1]), Len(stack), StackSum(stack, Len(stack), MatLen(stack[1]))>>

\* ST_filter_aat: tau, N and Adj_all
AATCanon(aat, tt) == <<MatLen(aat), tt, aat>>

STNormalise ==
    /\ pc = "start" /\ outcome = "running" /\ entry = "ST_filter"
    /\ N' = STCanon(A_snap)[1]
    /\ tau' = STCanon(A_snap)[2]
    /\ Adj_all' = STCanon(A_snap)[3]
    /\ pc' = "dense"
    /\ UNCHANGED <<inputs, nodes, in_str, edge_ids, solveVars, testVars, retVars,
                   objVars, parVars>>

AATNormalise ==
    /\ pc = "start" /\ outcome = "running" /\ entry = "ST_filter_aat"
    /\ N' = AATCanon(AAT, t)[1]
    /\ tau' = AATCanon(AAT, t)[2]
    /\ Adj_all' = AATCanon(AAT, t)[3]
    /\ pc' = "dense"
    /\ UNCHANGED <<inputs, nodes, in_str, edge_ids, solveVars, testVars, retVars,
                   objVars, parVars>>

(* ---------- one temporal network in its three input forms ------------- *)
\* nodes, snapshots and active ties of the networks
FormsN == 3
FormsT == 2
FormsTies == 3

\* a network over snapshots 1..T is the set of its active ties <<s, i, j>>, i < j
Slots(T, n) == {<<s, i, j>> : s \in 1..T, i \in Idx(n), j \in Idx(n)} \cap
               {sl \in (1..T) \X Idx(n) \X Idx(n) : sl[2] < sl[3]}

Lo(a, b) == IF a < b THEN a ELSE b
Hi(a, b) == IF a < b THEN b ELSE a

\* the snapshot stack of a network
StackOf(ties, T, n) ==
    [s \in 1..T |-> [i \in Idx(n) |-> [j \in Idx(n) |->
        IF i # j /\ <<s, Lo(i, j), Hi(i, j)>> \in ties THEN 1 ELSE 0]]]

Before(r, q) ==
    \/ r[1] < q[1]
    \/ r[1] = q[1] /\ r[2] < q[2]
    \/ r[1] = q[1] /\ r[2] = q[2] /\ r[3] < q[3]

\* the edge list of a network: one row per active tie and snapshot; with flip,
\* every second row is written (j, i) instead of (i, j)
RECURSIVE RowsOf(_, _, _)
RowsOf(ties, flip, k) ==
    IF ties = {} THEN << >>
    ELSE LET r == CHOOSE q \in ties : \A o \in ties \ {q} : Before(q, o)
             row == IF flip /\ k % 2 = 1
                    THEN <<Tok(r[1]), Tok(r[3]), Tok(r[2])>>
                    ELSE <<Tok(r[1]), Tok(r[2]), Tok(r[3])>>
         IN  <<row>> \o RowsOf(ties \ {r}, flip, k + 1)

InitForms ==
    /\ entry \in Entries
    /\ \E T \in 1..FormsT : \E ties \in SUBSET Slots(T, FormsN) : \E flip \in BOOLEAN :
        /\ Cardinality(ties) <= FormsTies
        /\ A_snap = StackOf(ties, T, FormsN)
        /\ AAT = StackSum(StackOf(ties, T, FormsN), T, FormsN)
        /\ t = T
        /\ edge_list = RowsOf(ties, flip, 1)
    /\ alpha = 1 /\ judge = "p_val" /\ memorysave = FALSE /\ paral = TRUE
    /\ InitRun

NextForms == STNormalise \/ AATNormalise \/ LNormalise \/ LDense

SpecForms == InitForms /\ [][NextForms]_vars

\* the canonical triple of the call, once it has one or has failed
Normalised == pc = "dense" \/ outcome # "running"

\* every snapshot has an active tie and every node has a tie
Covered ==
    /\ \A s \in DOMAIN A_snap : \E i, j \in Idx(FormsN) : A_snap[s][i][j] = 1
    /\ \A i \in Idx(FormsN) : \E s \in DOMAIN A_snap : \E j \in Idx(FormsN) :
          A_snap[s][i][j] = 1

\* C6 as stated: the three input forms of one network are normalised to the
\* same (N, tau, Adj_all), also with empty snapshots or nodes without a tie
\* (stated here for the networks that have a tie at all).
C6_FormsAgreeAlways ==
    (Normalised /\ edge_list # << >>) =>
        /\ outcome = "running"
        /\ <<N, tau, Adj_all>> = STCanon(A_snap)
        /\ <<N, tau, Adj_all>> = AATCanon(AAT, t)

\* C6 amended: the three input forms of one network in which every snapshot has
\* an active tie and every node has a tie are normalised to the same
\* (N, tau, Adj_all).
C6_FormsAgreeWhenCovered ==
    (Normalised /\ Covered) =>
        /\ outcome = "running"
        /\ <<N, tau, Adj_all>> = STCanon(A_snap)
        /\ <<N, tau, Adj_all>> = AATCanon(AAT, t)

C6_Witness ==
    /\ pc = "dense" /\ entry = "ST_filter_list" /\ Covered
    /\ tau = 2 /\ N = FormsN
    /\ \E k \in DOMAIN edge_ids : edge_ids[k][2] > edge_ids[k][3]

(* ------------------------- the whole call ----------------------------- *)
\* the solver results of the whole-call model
RunXs == {1, 2}
RunIterates(n) == [Idx(n) -> RunXs]

\* sol = opt.root(obj_func, x0 = a0, method = opt_method); activ_params = sol.x
\* (dense path of the three entry points; a failed solve only prints a caution)
Solve ==
    /\ pc = "dense" /\ outcome = "running"
    /\ activ_params' \in RunIterates(N)
    /\ success' \in BOOLEAN
    /\ pc' = "solved"
    /\ UNCHANGED <<inputs, normVars, testVars, retVars, objVars, parVars>>

FieldValue(f) ==
    CASE f = "Adj_sig" -> Adj_sig
      [] f = "Adj_all" -> Adj_all
      [] f = "p_mat" -> p_mat
      [] f = "activ_params" -> activ_params
      [] f = "nodes" -> nodes

\* the keys of the dict the dense path returns
DenseFields(ent, instr) ==
    IF ent = "ST_filter_list" /\ instr
    THEN {"Adj_sig", "Adj_all", "p_mat", "activ_params", "nodes"}
    ELSE {"Adj_sig", "Adj_all", "p_mat", "activ_params"}

\* the return statement of the dense path
Return ==
    /\ pc = "judged" /\ outcome = "running"
    /\ resultset' = [f \in DenseFields(entry, in_str) |-> FieldValue(f)]
    /\ outcome' = "result"
    /\ pc' = "done"
    /\ UNCHANGED <<inputs, normVars, solveVars, testVars, exc, objVars, parVars>>

\* np.sort(edge_list[:, [1, 2]], axis = 1)
SortedPairs(ids) ==
    [k \in DOMAIN ids |-> <<Lo(ids[k][2], ids[k][3]), Hi(ids[k][2], ids[k][3])>>]

\* ST_filter_list, memory save mode: the solve over the pair list, with or
\* without the thread pool
MemSolve ==
    /\ pc = "normalised" /\ outcome = "running"
    /\ entry = "ST_filter_list" /\ memorysave
    /\ search_list' = SortedPairs(edge_ids)
    /\ activ_params' \in RunIterates(N)
    /\ success' \in BOOLEAN
    /\ pc' = "memsolved"
    /\ UNCHANGED <<inputs, normVars, testVars, retVars, x, H_dense, H, parVars>>

\* the mutant of MemFields: the matrices' fields are returned too
MemFieldsAsDense(instr) == DenseFields("ST_filter_list", instr)

\* the keys of the dict memory save mode returns
MemFields(instr) == IF instr THEN {"activ_params", "nodes"} ELSE {"activ_params"}

MemReturn ==
    /\ pc = "memsolved" /\ outcome = "running"
    /\ resultset' = [f \in MemFields(in_str) |-> FieldValue(f)]
    /\ outcome' = "result"
    /\ pc' = "done"
    /\ UNCHANGED <<inputs, normVars, solveVars, testVars, exc, objVars, parVars>>

\* an allocation fails somewhere in the call
RaiseMemoryError ==
    /\ outcome = "running" /\ pc # "done"
    /\ exc' = "MemoryError"
    /\ outcome' = IF Caught("MemoryError", entry, memorysave, pc) THEN "none" ELSE "raised"
    /\ UNCHANGED <<inputs, pc, normVars, solveVars, testVars, resultset, objVars, parVars>>

\* rows of the edge lists, nodes and snapshots of the networks of the whole call
RunRows == 1
RunN == 2
RunT == 1
RunSnapTokens == {"1", "t"}
RunNodeTokens == {"0", "1", "a"}
RunAlphas == {4}

InitCall ==
    /\ judge \in Judges
    /\ alpha \in RunAlphas
    /\ \/ /\ entry = "ST_filter_list"
          /\ edge_list \in {el \in EdgeLists(RunSnapTokens, RunNodeTokens, RunRows) :
                               WellFormed(el, RunSnapTokens, RunNodeTokens)}
          /\ memorysave \in BOOLEAN /\ paral \in BOOLEAN
          /\ A_snap = << >> /\ AAT = << >> /\ t = 0
       \/ /\ entry = "ST_filter"
          /\ \E T \in 1..RunT : \E ties \in SUBSET Slots(T, RunN) :
                A_snap = StackOf(ties, T, RunN)
          /\ edge_list = << >> /\ AAT = << >> /\ t = 0
          /\ memorysave = FALSE /\ paral = TRUE
       \/ /\ entry = "ST_filter_aat"
          /\ \E T \in 1..RunT : \E ties \in SUBSET Slots(T, RunN) :
                AAT = StackSum(StackOf(ties, T, RunN), T, RunN) /\ t = T
          /\ edge_list = << >> /\ A_snap = << >>
          /\ memorysave = FALSE /\ paral = TRUE
    /\ InitRun

Next ==
    \/ STNormalise \/ AATNormalise \/ LNormalise \/ LDense
    \/ Solve \/ PValues \/ Judge \/ Return
    \/ MemSolve \/ MemReturn
    \/ RaiseMemoryError

Spec == InitCall /\ [][Next]_vars

(* --------------------------- claims C7, C8 ---------------------------- *)
\* the call is at a position where the dense N x N structure is built or used
DenseStage == ~(entry = "ST_filter_list" /\ (memorysave \/ pc = "start"))

AllFields == {"Adj_sig", "Adj_all", "p_mat", "activ_params"}

\* C7 as stated: a MemoryError while building or using the dense structure makes
\* the invocation return no result, with no exception propagated to the caller.
C7_MemoryErrorReturnsNone ==
    (exc = "MemoryError" /\ DenseStage) => outcome = "none"

\* C7 amended: in the dense path of ST_filter_list a MemoryError makes the call
\* return None, with no field bag and no switch to the memory-saving estimator;
\* in ST_filter, in ST_filter_aat and in memory save mode the MemoryError reaches
\* the caller; a MemoryError in that dense path is the only condition under which
\* an entry point returns None; a call in which no exception occurred returns
\* the full result, whatever the solver's success and whatever judge is.
C7_OnlyListDenseReturnsNone ==
    /\ (exc = "MemoryError" /\ entry = "ST_filter_list" /\ ~memorysave /\ pc # "start")
          => (outcome = "none" /\ resultset = << >> /\ search_list = << >>)
    /\ (exc = "MemoryError" /\ ~(entry = "ST_filter_list" /\ ~memorysave /\ pc # "start"))
          => (outcome = "raised" /\ resultset = << >>)
    /\ outcome = "none"
          => (exc = "MemoryError" /\ entry = "ST_filter_list" /\ ~memorysave)
    /\ (pc = "done" /\ ~memorysave)
          => (outcome = "result" /\ exc = "" /\ AllFields \subseteq DOMAIN resultset)

C7_Witness ==
    /\ exc = "MemoryError" /\ outcome = "none" /\ pc = "solved"
    /\ judge = "other" /\ ~success

\* some node label of the edge list is not an integer
NonNumericLabels == \E l \in Labels(edge_list) : ~IsInt(l)

\* C8: the field set of the result of ST_filter_list is determined by memorysave
\* and by whether the labels are numeric: the four matrix/vector fields without
\* memorysave, activ_params alone with it, plus nodes iff a label is non-numeric.
C8_ResultFields ==
    (entry = "ST_filter_list" /\ outcome = "result") =>
        DOMAIN resultset =
            (IF memorysave THEN {"activ_params"} ELSE AllFields)
            \cup (IF NonNumericLabels THEN {"nodes"} ELSE {})

C8_Witness ==
    /\ entry = "ST_filter_list" /\ outcome = "result"
    /\ memorysave /\ NonNumericLabels /\ judge = "other" /\ ~success /\ paral

(* ------------------------ the objective function ---------------------- *)
\* extended rationals: [n, d] with d > 0 in lowest terms, or d = 0 for
\* +inf (n = 1), -inf (n = -1) and nan (n = 0)
RECURSIVE GCD(_, _)
GCD(a, b) == IF b = 0 THEN a ELSE GCD(b, a % b)

Abs(a) == IF a < 0 THEN -a ELSE a
Sign(a) == IF a > 0 THEN 1 ELSE IF a < 0 THEN -1 ELSE 0

\* float division a / b of two finite numbers (b = 0: +-inf, or nan for 0/0)
XDiv(a, b) ==
    IF b = 0 THEN [n |-> Sign(a), d |-> 0]
    ELSE LET g == GCD(Abs(a), Abs(b))
         IN  [n |-> (Sign(b) * a) \div g, d |-> Abs(b) \div g]

XZero == [n |-> 0, d |-> 1]
XNaN == [n |-> 0, d |-> 0]
XNeg(p) == [n |-> -p.n, d |-> p.d]

\* float addition: nan absorbs, inf + -inf = nan
XAdd(p, q) ==
    IF p.d = 0 /\ q.d = 0 THEN (IF p.n = q.n THEN p ELSE XNaN)
    ELSE IF p.d = 0 THEN p
    ELSE IF q.d = 0 THEN q
    ELSE XDiv(p.n * q.d + q.n * p.d, p.d * q.d)

\* (m - tau*u) / (1 - u) for u = c / UDen
Term(m, tt, c) == XDiv(m * UDen - tt * c, UDen - c)

\* np.sum over entries 0..k-1 of a vector of extended rationals
RECURSIVE XSum(_, _)
XSum(v, k) == IF k = 0 THEN XZero ELSE XAdd(XSum(v, k - 1), v[k - 1])

\* obj_func of the dense path: H = np.sum(obj_mat, axis = 1) - np.diag(obj_mat)
DenseObj(adj, tt, xx, n) ==
    LET obj_mat == [i \in Idx(n) |-> [j \in Idx(n) |-> Term(adj[i][j], tt, xx[i] * xx[j])]]
    IN  [i \in Idx(n) |-> XAdd(XSum(obj_mat[i], n), XNeg(obj_mat[i][i]))]

\* np.histogram(values, bins = n, range = (0, n))[0][j] for one integer value v:
\* bin j is [j, j+1), the last bin is closed on the right
InBin(v, j, n) == v = j \/ (j = n - 1 /\ v = n)

\* edges = search_list[np.where(search_list == i)[0]] (a row once per cell
\* that equals i); mij = the histogram of the cells of edges that are not i
Mij(sl, i, n) ==
    [j \in Idx(n) |->
        Cardinality({kcc \in (DOMAIN sl) \X {1, 2} \X {1, 2} :
            /\ sl[kcc[1]][kcc[2]] = i
            /\ sl[kcc[1]][kcc[3]] # i
            /\ InBin(sl[kcc[1]][kcc[3]], j, n)})]

\* the body of the loop of the sequential obj_func: H[i]
LoopBody(i, xx, sl, tt, n) ==
    LET mij == Mij(sl, i, n)
        res == [j \in Idx(n) |-> IF j = i THEN XZero ELSE Term(mij[j], tt, xx[i] * xx[j])]
    IN  XSum(res, n)

\* obj_func of memory save mode with paral = False
SeqObjFunc(xx, sl, tt, n) == [i \in Idx(n) |-> LoopBody(i, xx, sl, tt, n)]

\* sol(i), the task of the parallel obj_func
TaskSol(i, xx, sl, tt, n) ==
    LET mij == Mij(sl, i, n)
        res == [j \in Idx(n) |-> IF j = i THEN XZero ELSE Term(mij[j], tt, xx[i] * xx[j])]
    IN  XSum(res, n)

(* ------------- dense against memory-saving objective ------------------ *)
\* rows of the integer edge lists
MemRows == 2
MemSnapTokens == {"1", "2"}
MemNodeTokens == {"0", "1", "2"}

\* one evaluation of the dense obj_func, at an iterate x of the solver
EvalDense ==
    /\ pc = "dense" /\ outcome = "running" /\ entry = "ST_filter_list"
    /\ x' \in Iterates(N)
    /\ H_dense' = DenseObj(Adj_all, tau, x', N)
    /\ pc' = "evaluated"
    /\ UNCHANGED <<inputs, normVars, solveVars, testVars, retVars, search_list, H, parVars>>

\* one evaluation of the sequential memory-saving obj_func
EvalMem ==
    /\ pc = "normalised" /\ outcome = "running"
    /\ entry = "ST_filter_list" /\ memorysave /\ ~paral
    /\ search_list' = SortedPairs(edge_ids)
    /\ x' \in Iterates(N)
    /\ H' = SeqObjFunc(x', search_list', tau, N)
    /\ pc' = "evaluated"
    /\ UNCHANGED <<inputs, normVars, solveVars, testVars, retVars, H_dense, parVars>>

InitMem ==
    /\ entry = "ST_filter_list"
    /\ edge_list \in {el \in EdgeLists(MemSnapTokens, MemNodeTokens, MemRows) :
                         WellFormed(el, MemSnapTokens, MemNodeTokens)}
    /\ A_snap = << >> /\ AAT = << >> /\ t = 0
    /\ alpha = 1 /\ judge = "p_val" /\ memorysave \in BOOLEAN /\ paral = FALSE
    /\ InitRun

NextMem == LNormalise \/ LDense \/ EvalDense \/ EvalMem

SpecMem == InitMem /\ [][NextMem]_vars

\* the dense obj_func was evaluated (so every label is an index in [0, N))
DenseEvaluated == pc = "evaluated" /\ ~memorysave

\* first part of C9: the per-node tie counts of the memory-saving estimator are
\* the dense aggregate row off the diagonal
C9_TieCountsAgree ==
    DenseEvaluated =>
        \A i, j \in Idx(N) :
            i # j => Mij(SortedPairs(edge_ids), i, N)[j] = Adj_all[i][j]

\* C9: for an integer-indexed edge list over N nodes, m_ij = Adj_all[i][j] for
\* j # i, the j = i term is excluded in both, hence the memory-saving H_i(x) is
\* the same sum as the dense H_i(x) for the same x and tau.
C9_SameObjective ==
    DenseEvaluated =>
        /\ \A i, j \in Idx(N) :
              i # j => Mij(SortedPairs(edge_ids), i, N)[j] = Adj_all[i][j]
        /\ H_dense = SeqObjFunc(x, SortedPairs(edge_ids), tau, N)

(* --------------- the parallel objective function ---------------------- *)
\* node labels 0..ParLabels-1, rows of the pair list and worker threads of the pool
ParLabels == 3
ParRows == 2
ParWorkers == 2

Pending == [done |-> FALSE, val |-> XZero]

\* executor.map(sol, range(N)): every task is submitted, in order, before any
\* result is collected
ParSubmit ==
    /\ pc = "normalised" /\ pcm = "idle" /\ memorysave /\ paral
    /\ work_queue' = [k \in 1..N |-> k - 1]
    /\ fut' = [i \in Idx(N) |-> Pending]
    /\ running' = {}
    /\ runs' = [i \in Idx(N) |-> 0]
    /\ completed' = << >>
    /\ results' = << >>
    /\ pcm' = "collect"
    /\ UNCHANGED <<inputs, pc, normVars, solveVars, testVars, retVars, objVars>>

\* an idle worker thread (there are ParWorkers threads) takes the oldest
\* submitted task
WorkerTake ==
    /\ pcm = "collect" /\ Cardinality(running) < ParWorkers /\ work_queue # << >>
    /\ running' = running \cup {Head(work_queue)}
    /\ work_queue' = Tail(work_queue)
    /\ runs' = [runs EXCEPT ![Head(work_queue)] = @ + 1]
    /\ UNCHANGED <<inputs, pc, normVars, solveVars, testVars, retVars, objVars,
                   pcm, fut, completed, results>>

\* the worker thread that runs task i finishes it: the future gets sol(i)
WorkerFinish(i) ==
    /\ pcm = "collect" /\ i \in running
    /\ fut' = [fut EXCEPT ![i] = [done |-> TRUE, val |-> TaskSol(i, x, search_list, tau, N)]]
    /\ completed' = Append(completed, i)
    /\ running' = running \ {i}
    /\ UNCHANGED <<inputs, pc, normVars, solveVars, testVars, retVars, objVars,
                   pcm, work_queue, results, runs>>

\* the mutant of ResultIndex: results are taken as the tasks complete
ResultIndexAsCompleted(k, comp) == IF k < Len(comp) THEN comp[k + 1] ELSE -1

\* the future whose result the iterator of executor.map yields k-th
ResultIndex(k, comp) == k

\* list(result): the next result, blocking until its future is done
Collect ==
    /\ pcm = "collect" /\ Len(results) < N
    /\ LET i == ResultIndex(Len(results), completed)
       IN  /\ i \in Idx(N)
           /\ fut[i].done
           /\ results' = Append(results, fut[i].val)
    /\ UNCHANGED <<inputs, pc, normVars, solveVars, testVars, retVars, objVars,
                   pcm, work_queue, running, fut, completed, runs>>

\* the end of the with block (shutdown(wait = True)) and H = np.array(list(result))
ParReturn ==
    /\ pcm = "collect" /\ Len(results) = N
    /\ work_queue = << >> /\ running = {}
    /\ H' = [i \in Idx(N) |-> results[i + 1]]
    /\ pcm' = "returned"
    /\ UNCHANGED <<inputs, pc, normVars, solveVars, testVars, retVars, x, search_list,
                   H_dense, work_queue, running, fut, completed, results, runs>>

\* obj_func with paral = False: the loop over the nodes
SeqEvaluate ==
    /\ pc = "normalised" /\ pcm = "idle" /\ memorysave /\ ~paral
    /\ H' = SeqObjFunc(x, search_list, tau, N)
    /\ pcm' = "returned"
    /\ UNCHANGED <<inputs, pc, normVars, solveVars, testVars, retVars, x, search_list,
                   H_dense, work_queue, running, fut, completed, results, runs>>

\* the sorted pairs over the labels 0..n-1
PairsOver(n) == {pr \in Idx(n) \X Idx(n) : pr[1] <= pr[2]}

\* the labels of a pair list
PairLabels(sl) == {sl[k][c] : k \in DOMAIN sl, c \in {1, 2}}

\* obj_func(x) is called: the pair list of memory save mode, N (the number of
\* distinct labels), tau (at most one snapshot per row) and an iterate x of the solver
InitPar ==
    /\ entry = "ST_filter_list"
    /\ memorysave = TRUE /\ paral \in BOOLEAN
    /\ alpha = 1 /\ judge = "p_val"
    /\ edge_list = << >> /\ A_snap = << >> /\ AAT = << >> /\ t = 0
    /\ pc = "normalised" /\ outcome = "running" /\ exc = ""
    /\ search_list \in UNION {[1..len -> PairsOver(ParLabels)] : len \in 1..ParRows}
    /\ N = Cardinality(PairLabels(search_list))
    /\ tau \in 1..Len(search_list)
    /\ x \in RunIterates(N)
    /\ nodes = << >> /\ in_str = FALSE /\ edge_ids = << >> /\ Adj_all = << >>
    /\ activ_params = << >> /\ success = FALSE
    /\ p_mat = << >> /\ Adj_sig = << >> /\ resultset = << >>
    /\ H_dense = << >> /\ H = << >>
    /\ pcm = "idle" /\ work_queue = << >> /\ running = {} /\ fut = << >>
    /\ completed = << >> /\ results = << >> /\ runs = << >>

NextPar ==
    \/ ParSubmit
    \/ WorkerTake
    \/ \E i \in Idx(N) : WorkerFinish(i)
    \/ Collect
    \/ ParReturn
    \/ SeqEvaluate

SpecPar == InitPar /\ [][NextPar]_vars

\* C10: with paral = True, for every interleaving and completion order of the
\* worker threads, each of the N tasks runs exactly once, obj_func returns only
\* after all N tasks have completed, and the returned vector has H[i] equal to
\* the result of task i: it is the vector the sequential obj_func returns for x.
C10_ParallelIsSequential ==
    (pcm = "returned" /\ paral) =>
        /\ \A i \in Idx(N) : runs[i] = 1 /\ fut[i].done
        /\ running = {} /\ work_queue = << >>
        /\ \A i \in Idx(N) : H[i] = fut[i].val
        /\ H = SeqObjFunc(x, search_list, tau, N)

\* the tasks completed out of order and their results differ
C10_Witness ==
    /\ pcm = "returned" /\ paral /\ N = 3
    /\ completed[1] = 1 /\ completed[2] = 0
    /\ H[0] # H[1]
====
